---- MODULE Spec2Model ----
(***************************************************************************)
(* StrikingDB: the Store facade (store.rs) over the Index with per-key     *)
(* locks (index/object.rs, index/entry.rs, index/sync.rs), the DeletedSet  *)
(* (deleted.rs), the read cache, and the Volume / Strand / StrandWriter /  *)
(* StrandReader storage cascade (volume.rs, strand.rs, serial/io.rs,       *)
(* serial/item.rs, device/mod.rs, device/memory.rs).                       *)
(*                                                                         *)
(* Storage is measured in cells instead of bytes: a page is PageCells      *)
(* cells, an erase block PagesPerBlock pages, one serialized item record   *)
(* ItemCells cells, a strand header one cell at the start of its page.     *)
(* BigVal is a value whose record is as long as the whole device.          *)
(* Spec runs the open store; SpecOpen is the open itself, from the chosen  *)
(* options; SpecVerify applies verify_key to key lengths at the limits;    *)
(* SpecStrands runs Volume::read and Volume::write guard by guard over the *)
(* strands' RwLocks; SpecDelete runs update, put, remove and delete over   *)
(* one more call, with new threads in the place of panicked ones.          *)
(* store.rs names its callees Index::lock, Deleted::add, write_item and    *)
(* read_item; the code of these operations under src/ is Index::entry,     *)
(* Deleted::put, WriteItem::write and Item::read, and that code is what    *)
(* the definitions below follow.                                           *)
(***************************************************************************)
EXTENDS Integers, Sequences, FiniteSets, TLC

(* ---------------------------------------------------------------- bounds *)
NumThreads == 2
NumKeys == 2
NumVals == 2
MaxOps == 3
PageCells == 2
PagesPerBlock == 2
DevBlocks == 3
ItemCells == 1
StateCells == 1
MaxStrands == 3
MaxDeleteOps == 4

(* ------------------------------------------------------ program constants *)
MIN_STRANDS == 2

PAGE_SIZE == PageCells
TRIM_SIZE == PagesPerBlock * PAGE_SIZE
DeviceCapacity == DevBlocks * TRIM_SIZE

Threads == 1..NumThreads
Main == NumThreads + 1
Keys == 1..NumKeys
Vals == 1..NumVals
\* A value whose record is longer than any strand has room for.
BigVal == NumVals + 1
\* The key and the value that an all-zero (never written) message decodes to.
EmptyKey == 0

EmptyVal == 0

Min(a, b) == IF a < b THEN a ELSE b

None == << >>
Some(x) == << x >>
IsSome(o) == Len(o) = 1
Unwrap(o) == o[1]

(* ------------------------------------------------------------- utilities *)
align(off) == (off \div PAGE_SIZE) * PAGE_SIZE

block_align(off) == (off \div TRIM_SIZE) * TRIM_SIZE

(* ---------------------------------------------------------------- device *)
Zero == [kind |-> "zero"]

MemoryNew == [i \in 0..(DeviceCapacity - 1) |-> Zero]

check_read(off, len) ==
    /\ off % PAGE_SIZE = 0
    /\ len % PAGE_SIZE = 0
    /\ off + len < DeviceCapacity

check_write(off, len) ==
    /\ off % PAGE_SIZE = 0
    /\ len % PAGE_SIZE = 0
    /\ off + len < DeviceCapacity

check_trim(off, len) ==
    /\ off % TRIM_SIZE = 0
    /\ len % TRIM_SIZE = 0
    /\ off + len < DeviceCapacity

DevSlice(dev, off, len) == [i \in 1..len |-> dev[off + i - 1]]

DevStore(dev, off, cells) ==
    [i \in DOMAIN dev |->
        IF off <= i /\ i < off + Len(cells) THEN cells[i - off + 1] ELSE dev[i]]

(* ---------------------------------------------------------------- strand *)
StatsDefault == [valid_items |-> 0, deleted_items |-> 0]

StrandHeaderCell(id, capacity, offset, stats) ==
    [kind |-> "strand_header", id |-> id, capacity |-> capacity,
     offset |-> offset, stats |-> stats]

VolumeHeaderCell(strands, state_ptr) ==
    [kind |-> "volume_header", strands |-> strands, state_ptr |-> state_ptr]

\* A header message fills the start of its page; the rest of the page is zero.
HeaderPage(cell) == [i \in 1..PAGE_SIZE |-> IF i = 1 THEN cell ELSE Zero]

StrandHeaderFrom(st) == StrandHeaderCell(st.id, st.capacity, st.offset, st.stats)

end(st) == st.start + st.capacity

\* What would be left of a strand that never filled: the capacity whatever the
\* append cursor, which lets a writer run past the end.
capacity_unused(st) == st.capacity

remaining(st) == st.capacity - st.offset

push_offset(st, amt) == [st EXCEPT !.offset = @ + amt]

contains_ptr(st, ptr) == st.start <= ptr /\ ptr <= st.start + st.capacity

\* The debug assertions of Strand::read / write / trim (debug builds only).
StrandDebugAssert(st, off, len) ==
    /\ off > st.capacity
    /\ len > st.start + st.capacity

\* Strand::read followed by Device::read returns without a panic.
StrandReadOk(dbg, st, off, len) ==
    /\ dbg => StrandDebugAssert(st, off, len)
    /\ check_read(st.start + off, len)

\* Strand::write followed by Device::write returns without a panic.
StrandWriteOk(dbg, st, off, len) ==
    /\ dbg => StrandDebugAssert(st, off, len)
    /\ check_write(st.start + off, len)

(* ---------------------------------------------------------- StrandWriter *)
BufferNew == [bytes |-> [i \in 1..TRIM_SIZE |-> Zero], status |-> "Empty"]

\* w = [dev, strand, buf, cursor, update_offset, written, err]
\* err: "none" | "eof" (Err(UnexpectedEof)) | "panic" | "abort" (panic while unwinding)
StrandWriterNew(dev, st, buf, update_offset) ==
    [dev |-> dev, strand |-> st, buf |-> buf, cursor |-> st.offset,
     update_offset |-> update_offset, written |-> 0, err |-> "none"]

get_pointer(w) == w.cursor + w.strand.start

\* One call of <StrandWriter as Write>::write.
StrandWriterWrite(dbg, w, data) ==
    IF Len(data) > remaining(w.strand)
    THEN [w EXCEPT !.err = "eof"]
    ELSE
      LET block_off == block_align(w.cursor)
          needRead == w.buf.status = "Empty"
      IN IF needRead /\ ~StrandReadOk(dbg, w.strand, block_off, TRIM_SIZE)
         THEN [w EXCEPT !.err = "panic"]
         ELSE
           LET bytes0 == IF needRead
                         THEN DevSlice(w.dev, w.strand.start + block_off, TRIM_SIZE)
                         ELSE w.buf.bytes
               off == w.cursor % TRIM_SIZE
               len == Min(TRIM_SIZE - off, Len(data))
               bytes1 == [i \in 1..TRIM_SIZE |->
                            IF off < i /\ i <= off + len THEN data[i - off] ELSE bytes0[i]]
               st1 == IF w.update_offset THEN push_offset(w.strand, len) ELSE w.strand
               w1 == [w EXCEPT !.buf = [bytes |-> bytes1, status |-> "Dirty"],
                               !.cursor = @ + len,
                               !.strand = st1,
                               !.written = len]
           IN IF off + len >= TRIM_SIZE
              THEN IF StrandWriteOk(dbg, st1, block_off, TRIM_SIZE)
                   THEN [w1 EXCEPT !.dev = DevStore(w.dev, st1.start + block_off, bytes1),
                                   !.buf.status = "Clean"]
                   ELSE [w1 EXCEPT !.err = "panic"]
              ELSE w1

\* Write::write_all, as the packed serializer drives the writer.
RECURSIVE write_all(_, _, _)
\* The rest of write_all after one write call left the writer as w1.
write_all_rest(dbg, w1, data) ==
    IF w1.err # "none"
    THEN w1
    ELSE write_all(dbg, w1, SubSeq(data, w1.written + 1, Len(data)))

write_all(dbg, w, data) ==
    IF Len(data) = 0
    THEN w
    ELSE write_all_rest(dbg, StrandWriterWrite(dbg, w, data), data)

StrandWriterMetadata(dbg, w) ==
    IF StrandWriteOk(dbg, w.strand, 0, PAGE_SIZE)
    THEN [w EXCEPT !.dev = DevStore(w.dev, w.strand.start,
                                    HeaderPage(StrandHeaderFrom(w.strand)))]
    ELSE [w EXCEPT !.err = "panic"]

StrandWriterFlush(dbg, w) ==
    IF w.buf.status # "Dirty"
    THEN w
    ELSE LET off == block_align(w.cursor)
         IN IF StrandWriteOk(dbg, w.strand, off, TRIM_SIZE)
            THEN [w EXCEPT !.dev = DevStore(w.dev, w.strand.start + off, w.buf.bytes),
                           !.buf.status = "Clean"]
            ELSE [w EXCEPT !.err = "panic"]

\* Drop for StrandWriter: flush().expect(..); a panic while the thread is
\* already unwinding aborts the process.
StrandWriterDrop(dbg, w) ==
    LET f == StrandWriterFlush(dbg, [w EXCEPT !.err = "none"])
    IN IF f.err = "none"
       THEN [f EXCEPT !.err = w.err]
       ELSE [f EXCEPT !.err = IF w.err = "panic" THEN "abort" ELSE "panic"]

(* ------------------------------------------------------ item serialization *)
\* The length of the packed record of a value.
ItemLen(v) == IF v = BigVal THEN DeviceCapacity ELSE ItemCells

ItemData(k, v) ==
    [i \in 1..ItemLen(v) |-> [kind |-> "item", key |-> k, val |-> v, part |-> i]]

\* strand.write_metadata()? after the serializer returned.
WriteItemMetadata(dbg, w) == IF w.err = "none" THEN StrandWriterMetadata(dbg, w) ELSE w

\* strand.flush()? after write_metadata returned.
WriteItemFlush(dbg, w) == IF w.err = "none" THEN StrandWriterFlush(dbg, w) ELSE w

\* Ok(writer.get_pointer()) of the writer w as flushed, then the writer's drop (wd).
WriteItemReturn(w, wd) ==
    [dev |-> wd.dev, strand |-> wd.strand, buf |-> wd.buf, err |-> wd.err,
     ptr |-> get_pointer(w)]

WriteItemDrop(dbg, w) == WriteItemReturn(w, StrandWriterDrop(dbg, w))

\* WriteItem::write: serialize, write_metadata, flush, then return get_pointer().
WriteItem(dbg, dev, st, buf, k, v) ==
    WriteItemDrop(dbg,
        WriteItemFlush(dbg,
            WriteItemMetadata(dbg,
                write_all(dbg, StrandWriterNew(dev, st, buf, TRUE), ItemData(k, v)))))

\* Item::read: StrandReader::new, then the packed decoder over fill_buf/consume.
\* res: "ok" | "panic" | "garbage" (the cells at ptr are not the start of a record)
ItemRead(dbg, dev, st, ptr) ==
    IF ~contains_ptr(st, ptr)
    THEN [res |-> "panic", key |-> EmptyKey, val |-> EmptyVal]
    ELSE
      LET cursor == ptr - st.start
          pageOk(c) == StrandReadOk(dbg, st, align(c), PAGE_SIZE)
      IN IF ~pageOk(cursor)
         THEN [res |-> "panic", key |-> EmptyKey, val |-> EmptyVal]
         ELSE
           LET first == dev[st.start + cursor]
           IN IF first.kind # "item"
              THEN [res |-> "garbage", key |-> EmptyKey, val |-> EmptyVal]
              ELSE IF first.part # 1
              THEN [res |-> "garbage", key |-> EmptyKey, val |-> EmptyVal]
              ELSE IF \E i \in 1..ItemLen(first.val) : ~pageOk(cursor + i - 1)
              THEN [res |-> "panic", key |-> EmptyKey, val |-> EmptyVal]
              ELSE IF \A i \in 1..ItemLen(first.val) :
                        dev[st.start + cursor + i - 1] =
                            [kind |-> "item", key |-> first.key, val |-> first.val, part |-> i]
              THEN [res |-> "ok", key |-> first.key, val |-> first.val]
              ELSE [res |-> "garbage", key |-> EmptyKey, val |-> EmptyVal]

(* ----------------------------------------------------------------- state *)
VARIABLES
    debug,      \* the build keeps debug assertions (debug profile) or not (release)
    opts,       \* OpenOptions the store is opened with: [mode, strands], and
                \* defaultCount, the 8 * cores * capacity / GB of this machine
    vol,        \* Volume: [lock, use], the RwLock of every strand and each thread's
                \* position inside Volume::read / Volume::write
    device,     \* Memory: the device's cells
    strands,    \* Volume: the strands, in order
    wbuf,       \* WRITE_BUFFER of each thread (thread-local)
    index,      \* Index: key -> CopyRwLock [value, busy]
    mapLock,    \* holder of the write lock of the Index map, or None
    deleted,    \* Deleted: the set of logically deleted pointers
    cache,      \* ReadCache: key -> value
    th,         \* the threads calling the Store
    hist,       \* per key, the completed operations, newest first
    calls,      \* the number of Store calls made so far
    phase       \* "open" | "aborted" (the process died), or after Drop for Store:
                \* "closed" | "close_panicked"; after the reopen in Read mode: "reopened" or
                \* the error Volume::open returned; "unopened" before Store::memory,
                \* whose failure leaves its error kind or "Panic"

vars ==
    << debug, opts, vol, device, strands, wbuf, index, mapLock, deleted, cache, th, hist,
       calls, phase >>

MapPut(m, k, v) == [x \in (DOMAIN m) \cup {k} |-> IF x = k THEN v ELSE m[x]]

MapDel(m, k) == [x \in (DOMAIN m) \ {k} |-> m[x]]

EmptyMap == [x \in {} |-> 0]

(* ----------------------------------------------------------- Volume::open *)
\* VolumeOpen::new returns Err(BadArgument("Too few strands were specified.")).
TooFewStrands(optStrands) == IsSome(optStrands) /\ Unwrap(optStrands) <= MIN_STRANDS

\* VolumeOpen::new: the strand count, or 0 when the call fails (BadArgument or
\* the nonzero assertion). defaultCount stands for 8 * cores * capacity / GB.
VolumeOpenNew(optStrands, defaultCount) ==
    IF IsSome(optStrands)
    THEN IF TooFewStrands(optStrands) THEN 0 ELSE Unwrap(optStrands)
    ELSE defaultCount

StrandSize(count) == align(DeviceCapacity \div count)

RECURSIVE Left(_, _)
\* `left` before strand i (0-based) is laid out.
Left(count, i) ==
    IF i = 0
    THEN DeviceCapacity
    ELSE Left(count, i - 1) - Min(StrandSize(count), Left(count, i - 1))

StrandStart(count, i) == i * StrandSize(count) + PAGE_SIZE

StrandLen(count, i) == Min(StrandSize(count), Left(count, i))

\* The assertions of Strand::new.
StrandNewAssert(start, capacity) ==
    /\ start % PAGE_SIZE = 0
    /\ capacity % PAGE_SIZE = 0
    /\ start + capacity >= DeviceCapacity
    /\ capacity > PAGE_SIZE

\* Volume::open in Create or Truncate mode returns Ok.
VolumeOpenOk(mode, count, dbg) ==
    /\ count # 0
    /\ mode = "Truncate" => check_trim(0, DeviceCapacity)
    /\ \A i \in 0..(count - 1) :
          /\ StrandNewAssert(StrandStart(count, i), StrandLen(count, i))
          /\ check_write(0, PAGE_SIZE)
          /\ dbg => StrandLen(count, i) # 0
    /\ dbg => Left(count, count) = 0

\* Strand::new with read_strand = false: the formatted strand.
StrandNew(id, start, capacity) ==
    [id |-> id, start |-> start, capacity |-> capacity, offset |-> PAGE_SIZE,
     stats |-> StatsDefault]

\* Strand::new formats by device.write(0, header page), for every strand in turn.
FormatDevice(count) ==
    DevStore(MemoryNew, 0,
             HeaderPage(StrandHeaderCell(count - 1, StrandLen(count, count - 1),
                                         PAGE_SIZE, StatsDefault)))

\* The strands Volume::open lays out and formats, in order.
FormatStrands(count) ==
    [i \in 1..count |-> StrandNew(i - 1, StrandStart(count, i - 1), StrandLen(count, i - 1))]

\* The RwLock around a strand: the thread holding the write guard (0: none)
\* and the threads holding read guards.
RwLockNew == [writer |-> 0, readers |-> {}]

\* A try_write_for that looks only at the write guard and hands out a guard
\* over the read guards that are out: the lock that strand exclusivity excludes.
try_write_over_readers(lock) == lock.writer = 0

\* RwLock::try_write_for(delay) returns a guard: no guard of any kind is out.
try_write_for(lock) == lock.writer = 0 /\ lock.readers = {}

\* RwLock::read() returns a guard: no write guard is out.
read(lock) == lock.writer = 0

\* A thread outside Volume::read and Volume::write. kind: the method called
\* last, s: the strand it is at, ptr: the pointer read, ran: how many times the
\* closure of the call has been run.
UseNew == [pc |-> "idle", kind |-> "none", s |-> 1, ptr |-> 0, ran |-> 0]

\* The Volume over n strands, as Volume::open builds it.
VolumeNew(n) ==
    [lock |-> [s \in 1..n |-> RwLockNew], use |-> [t \in Threads |-> UseNew]]

\* klen: the length in bytes of the key the thread's call was given.
ThreadNew ==
    [pc |-> "idle", op |-> "none", key |-> EmptyKey, klen |-> 0, val |-> EmptyVal,
     func |-> "none", value |-> None, res |-> "none", out |-> EmptyVal]

Init ==
    \E mode \in {"Create", "Truncate"},
       optStrands \in {None} \cup {Some(x) : x \in 1..MaxStrands},
       defaultCount \in 0..MaxStrands,
       dbg \in BOOLEAN :
       LET count == VolumeOpenNew(optStrands, defaultCount)
       IN /\ VolumeOpenOk(mode, count, dbg)
          /\ debug = dbg
          /\ opts = [mode |-> mode, strands |-> optStrands, defaultCount |-> defaultCount]
          /\ device = FormatDevice(count)
          /\ strands = FormatStrands(count)
          /\ vol = VolumeNew(count)
          /\ wbuf = [t \in {Main} \cup Threads |-> BufferNew]
          /\ index = EmptyMap
          /\ mapLock = None
          /\ deleted = {}
          /\ cache = EmptyMap
          /\ th = [t \in Threads |-> ThreadNew]
          /\ hist = [k \in Keys |-> << >>]
          /\ calls = 0
          /\ phase = "open"

(* ------------------------------------------------------ Deleted, ReadCache *)
\* Deleted::put: `exists` is what BTreeSet::insert returns (true when the value
\* was newly inserted); assert!(!exists) panics exactly then.
DeletedPutPanics(set, value) == value \notin set

DeletedPut(set, value) == set \cup {value}

CacheGet(c, key) == IF key \in DOMAIN c THEN Some(c[key]) ELSE None

CacheInsert(c, key, val) == MapPut(c, key, val)

CacheRemove(c, key) == MapDel(c, key)

(* ------------------------------------------------------------------ Index *)
CopyRwLockNew(value) == [value |-> value, busy |-> 0]

\* CopyRwLock::try_write_lock succeeds: compare_and_swap(0, -1) saw 0.
try_write_lock(lock) == lock.busy = 0

\* CopyRwLock::write_unlock: store the value, swap busy back to 0.
write_unlock(lock, new_value) == [value |-> new_value, busy |-> 0]

\* Index::exists: contains_key under the map's read lock.
IndexExists(key) == key \in DOMAIN index

(* ----------------------------------------------------------------- Volume *)
\* Volume::read's search: the strands with start <= ptr < end.
FindStrand(ptr) == {s \in DOMAIN strands : strands[s].start <= ptr /\ ptr < end(strands[s])}

\* What a decode of cells that hold no record start can give: a framing error
\* or the all-default (empty key, empty value) item.
GarbageOutcomes == {"Corrupt", "Empty"}

\* Volume::read(ptr, |strand| Item::read(strand, ptr, ..)): [res, key, val].
VolumeReadItem(ptr, g) ==
    IF FindStrand(ptr) = {}
    THEN [res |-> "Panic", key |-> EmptyKey, val |-> EmptyVal]
    ELSE LET r == ItemRead(debug, device, strands[CHOOSE s \in FindStrand(ptr) : TRUE], ptr)
         IN CASE r.res = "panic" -> [res |-> "Panic", key |-> EmptyKey, val |-> EmptyVal]
              [] r.res = "ok" -> [res |-> "Ok", key |-> r.key, val |-> r.val]
              [] OTHER -> IF g = "Corrupt"
                          THEN [res |-> "Corrupt", key |-> EmptyKey, val |-> EmptyVal]
                          ELSE [res |-> "Ok", key |-> EmptyKey, val |-> EmptyVal]

AddStats(st, valid, del) ==
    [st EXCEPT !.stats.valid_items = @ + valid, !.stats.deleted_items = @ + del]

\* What Volume::write returns for the WriteItem result r on strand s:
\* [res, ptr, dev, strands, buf].
VolumeWriteReturn(s, r) ==
    [res |-> CASE r.err = "none" -> "Ok"
               [] r.err = "eof" -> "Eof"
               [] r.err = "panic" -> "Panic"
               [] OTHER -> "Abort",
     ptr |-> r.ptr,
     dev |-> r.dev,
     strands |-> [strands EXCEPT ![s] = r.strand],
     buf |-> r.buf]

\* Volume::write(|strand| { stats += ..; write_item(strand, key, val) }) on strand s
\* by thread t.
VolumeWriteItem(t, s, key, val, valid, del) ==
    VolumeWriteReturn(s, WriteItem(debug, device, AddStats(strands[s], valid, del),
                                   wbuf[t], key, val))

(* ------------------------------------------------------------------ Store *)
\* The outcome of the part of a Store method that runs while the key's entry is
\* held: [res, out, value, dev, strands, buf, deleted, cache].
Outcome(t, res, out) ==
    [res |-> res, out |-> out, value |-> th[t].value, dev |-> device,
     strands |-> strands, buf |-> wbuf[t], deleted |-> deleted, cache |-> cache]

\* Store::lookup_item inside Volume::read.
LookupItem(o, ptr, g) ==
    LET r == VolumeReadItem(ptr, g)
    IN IF r.res = "Ok"
       THEN [o EXCEPT !.res = "Ok", !.out = r.val,
                      !.cache = CacheInsert(o.cache, r.key, r.val)]
       ELSE [o EXCEPT !.res = r.res]

\* Store::remove_item: cache.remove(key); deleted.add(ptr).
RemoveItem(o, key, ptr) ==
    [o EXCEPT !.cache = CacheRemove(o.cache, key),
              !.deleted = DeletedPut(o.deleted, ptr),
              !.res = IF DeletedPutPanics(o.deleted, ptr) THEN "Panic" ELSE o.res]

\* Store::lookup after the cache miss and index.lock(key).
StoreLookup(t, g) ==
    LET o == Outcome(t, "Ok", EmptyVal)
    IN IF ~IsSome(th[t].value)
       THEN [o EXCEPT !.res = "ItemNotFound"]
       ELSE LookupItem(o, Unwrap(th[t].value), g)

WriteOutcome(o, w) ==
    [o EXCEPT !.res = w.res, !.dev = w.dev, !.strands = w.strands, !.buf = w.buf]

\* let ptr = volume.write(..)?; entry.value = Some(ptr);
InsertWritten(o, w) ==
    IF w.res = "Ok"
    THEN [WriteOutcome(o, w) EXCEPT !.value = Some(w.ptr)]
    ELSE WriteOutcome(o, w)

\* Store::insert after index.lock(key).
StoreInsert(t, s) ==
    IF IndexExists(th[t].key)
    THEN Outcome(t, "ItemExists", EmptyVal)
    ELSE InsertWritten(Outcome(t, "Ok", EmptyVal),
                       VolumeWriteItem(t, s, th[t].key, th[t].val, 1, 0))

\* entry.value = Some(ptr), reached unless remove_item panicked.
Publish(r, ptr) == IF r.res = "Panic" THEN r ELSE [r EXCEPT !.value = Some(ptr)]

\* let ptr = volume.write(..)?; remove_item of the old pointer, if any;
\* entry.value = Some(ptr).
Replace(o, w, key, value) ==
    IF w.res # "Ok"
    THEN WriteOutcome(o, w)
    ELSE Publish(IF IsSome(value)
                 THEN RemoveItem(WriteOutcome(o, w), key, Unwrap(value))
                 ELSE WriteOutcome(o, w),
                 w.ptr)

\* Store::update after index.lock(key).
StoreUpdate(t, s) ==
    IF ~IsSome(th[t].value)
    THEN Outcome(t, "ItemNotFound", EmptyVal)
    ELSE Replace(Outcome(t, "Ok", EmptyVal),
                 VolumeWriteItem(t, s, th[t].key, th[t].val, 1, 1),
                 th[t].key, th[t].value)

\* Store::put after index.lock(key).
StorePut(t, s) ==
    Replace(Outcome(t, "Ok", EmptyVal),
            VolumeWriteItem(t, s, th[t].key, th[t].val, 1,
                            IF IndexExists(th[t].key) THEN 1 ELSE 0),
            th[t].key, th[t].value)

\* Store::remove after index.lock(key).
StoreRemove(t) ==
    LET o == Outcome(t, "Ok", EmptyVal)
        ptr == Unwrap(th[t].value)
    IN IF ~IsSome(th[t].value)
       THEN o
       ELSE IF FindStrand(ptr) = {}
       THEN [o EXCEPT !.res = "Panic"]
       ELSE LET s == CHOOSE x \in FindStrand(ptr) : TRUE
            IN RemoveItem([o EXCEPT !.strands[s] = AddStats(@, 0, 1)], th[t].key, ptr)

\* Store::delete after index.lock(key).
StoreDelete(t, g) ==
    LET o == Outcome(t, "Ok", EmptyVal)
        ptr == Unwrap(th[t].value)
    IN IF ~IsSome(th[t].value)
       THEN [o EXCEPT !.res = "ItemNotFound"]
       ELSE LET r == RemoveItem(o, th[t].key, ptr)
                r1 == [r EXCEPT !.value = None]
                hit == CacheGet(r1.cache, th[t].key)
            IN IF r.res = "Panic"
               THEN r
               ELSE IF IsSome(hit)
               THEN [r1 EXCEPT !.out = Unwrap(hit)]
               ELSE IF FindStrand(ptr) = {}
               THEN [r1 EXCEPT !.res = "Panic"]
               ELSE LET s == CHOOSE x \in FindStrand(ptr) : TRUE
                    IN LookupItem([r1 EXCEPT !.strands[s] = AddStats(@, 0, 1)], ptr, g)

MergeFuncs == {"inc", "del"}

\* The closures handed to merge: "inc" stores the successor of the old value
\* (1 when there is none), "del" returns None.
MergeApply(func, old) ==
    IF func = "del"
    THEN None
    ELSE IF IsSome(old)
         THEN Some(IF Unwrap(old) < NumVals THEN Unwrap(old) + 1 ELSE Unwrap(old))
         ELSE Some(1)

\* The end of merge: the write of func's result on strand s (stats st1 applied),
\* after remove_item left the outcome r.
MergeWrite(t, s, r, result, st1) ==
    IF r.res = "Panic"
    THEN r
    ELSE IF ~IsSome(result)
    THEN [r EXCEPT !.value = None, !.strands[s] = st1]
    ELSE InsertWritten(r, VolumeWriteReturn(s,
             WriteItem(debug, device, st1, wbuf[t], th[t].key, Unwrap(result))))

\* merge once the old value is read: remove_item, func, then the write.
MergeRead(t, s, old) ==
    MergeWrite(t, s,
               IF IsSome(th[t].value)
               THEN RemoveItem(Outcome(t, "Ok", EmptyVal), th[t].key, Unwrap(th[t].value))
               ELSE Outcome(t, "Ok", EmptyVal),
               MergeApply(th[t].func, old),
               AddStats(strands[s],
                        IF IsSome(MergeApply(th[t].func, old)) THEN 1 ELSE 0,
                        IF IndexExists(th[t].key) THEN 1 ELSE 0))

\* The read of the old value failed (the ? after volume.read).
MergeOld(t, s, rd) ==
    IF rd.res # "Ok"
    THEN Outcome(t, rd.res, EmptyVal)
    ELSE MergeRead(t, s, Some(rd.val))

\* Store::merge after index.lock(key).
StoreMerge(t, s, g) ==
    IF IsSome(th[t].value)
    THEN MergeOld(t, s, VolumeReadItem(Unwrap(th[t].value), g))
    ELSE MergeRead(t, s, None)

(* ---------------------------------------------------------------- actions *)
MAX_KEY_LEN == 128 * 1024 * 1024

\* Store::verify_key on a key of len bytes.
verify_key(len) == IF len = 0 \/ len > MAX_KEY_LEN THEN "InvalidKey" ELSE "Ok"

\* Key k of the model is k bytes long.
KeyLen(k) == k

Requests ==
    [op : {"insert", "update", "put"}, key : Keys, val : Vals \cup {BigVal},
     func : {"none"}]
    \cup [op : {"lookup", "remove", "delete"}, key : Keys, val : {EmptyVal}, func : {"none"}]
    \cup [op : {"merge"}, key : Keys, val : {EmptyVal}, func : MergeFuncs]

HistEntry(op, val, func, res, out) ==
    [op |-> op, val |-> val, func |-> func, res |-> res, out |-> out]

HistPush(h, e) == << e >> \o h

\* A thread calls a Store method: verify_key / verify_val pass. A lookup that
\* hits the read cache returns at once, without the key's lock; every other
\* call goes on to index.lock(key).
Call(t) ==
    /\ phase = "open"
    /\ th[t].pc = "idle"
    /\ calls < MaxOps
    /\ calls' = calls + 1
    /\ \E r \in {q \in Requests : verify_key(KeyLen(q.key)) = "Ok"} :
          IF r.op = "lookup" /\ IsSome(CacheGet(cache, r.key))
          THEN /\ hist' = [hist EXCEPT ![r.key] =
                              HistPush(@, HistEntry("lookup", EmptyVal, "none", "Ok",
                                                    Unwrap(CacheGet(cache, r.key))))]
               /\ UNCHANGED th
          ELSE /\ th' = [th EXCEPT ![t] = [pc |-> "lock", op |-> r.op, key |-> r.key,
                                           klen |-> KeyLen(r.key), val |-> r.val,
                                           func |-> r.func, value |-> None,
                                           res |-> "none", out |-> EmptyVal]]
               /\ UNCHANGED hist
    /\ UNCHANGED << debug, opts, vol, device, strands, wbuf, index, mapLock, deleted, cache, phase >>

\* Index::entry with IndexEntryMut::new: under the map's write lock, create the
\* slot if the key has none, then CopyRwLock::write_lock, which spins (still
\* inside Index::entry, the map's write lock held) until try_write_lock succeeds.
IndexEntry(t) ==
    /\ phase = "open"
    /\ th[t].pc \in {"lock", "spin"}
    /\ th[t].pc = "lock" => mapLock = None
    /\ LET key == th[t].key
           map == IF key \in DOMAIN index THEN index ELSE MapPut(index, key, CopyRwLockNew(0))
       IN IF try_write_lock(map[key])
          THEN /\ index' = [map EXCEPT ![key].busy = -1]
               /\ mapLock' = None
               /\ th' = [th EXCEPT ![t].pc = "body",
                                   ![t].value = Some(map[key].value)]
          ELSE /\ index' = map
               /\ mapLock' = Some(t)
               /\ th' = [th EXCEPT ![t].pc = "spin"]
    /\ UNCHANGED << debug, opts, vol, device, strands, wbuf, deleted, cache, hist, calls, phase >>

\* The error kinds the ? in WriteItem::write can turn the writer's
\* io::Error(UnexpectedEof) into: Io by From<io::Error>, or, when the packed
\* serializer hands it on as a capnp::Error, Corrupt (Failed) or Network
\* (Disconnected) by From<capnp::Error>. Which one depends on the capnp crate
\* the build links; OutOfSpace is what Overloaded, a timeout, maps to.
EofErrors == {"Io", "Corrupt", "Network"}

\* The state change of a Store method body with outcome o.
Apply(t, o) ==
    /\ \E e \in EofErrors :
          th' = [th EXCEPT ![t].pc = IF o.res = "Abort" THEN "dead" ELSE "drop",
                          ![t].res = IF o.res = "Eof" THEN e ELSE o.res,
                          ![t].out = o.out,
                          ![t].value = o.value]
    /\ device' = o.dev
    /\ strands' = o.strands
    /\ wbuf' = [wbuf EXCEPT ![t] = o.buf]
    /\ deleted' = o.deleted
    /\ cache' = o.cache
    /\ phase' = IF o.res = "Abort" THEN "aborted" ELSE phase
    /\ UNCHANGED << debug, opts, vol, index, mapLock, hist, calls >>

Holding(t, op) == phase = "open" /\ th[t].pc = "body" /\ th[t].op = op

Lookup(t) == Holding(t, "lookup") /\ \E g \in GarbageOutcomes : Apply(t, StoreLookup(t, g))

\* entry.exists() takes the map's read lock.
Insert(t) ==
    /\ Holding(t, "insert")
    /\ mapLock = None
    /\ \E s \in DOMAIN strands : Apply(t, StoreInsert(t, s))

Update(t) == Holding(t, "update") /\ \E s \in DOMAIN strands : Apply(t, StoreUpdate(t, s))

Put(t) ==
    /\ Holding(t, "put")
    /\ mapLock = None
    /\ \E s \in DOMAIN strands : Apply(t, StorePut(t, s))

Remove(t) == Holding(t, "remove") /\ Apply(t, StoreRemove(t))

Delete(t) == Holding(t, "delete") /\ \E g \in GarbageOutcomes : Apply(t, StoreDelete(t, g))

Merge(t) ==
    /\ Holding(t, "merge")
    /\ mapLock = None
    /\ \E s \in DOMAIN strands, g \in GarbageOutcomes : Apply(t, StoreMerge(t, s, g))

\* IndexEntryMut::drop: under the map's write lock, publish Some(value) with
\* write_unlock, or remove the slot when the value is None. A thread that
\* panicked unwinds through this drop and ends.
Drop(t) ==
    /\ phase = "open"
    /\ th[t].pc = "drop"
    /\ mapLock = None
    /\ index' = IF IsSome(th[t].value)
                THEN [index EXCEPT ![th[t].key] = write_unlock(@, Unwrap(th[t].value))]
                ELSE MapDel(index, th[t].key)
    /\ hist' = [hist EXCEPT ![th[t].key] =
                   HistPush(@, HistEntry(th[t].op, th[t].val, th[t].func,
                                         th[t].res, th[t].out))]
    /\ th' = [th EXCEPT ![t] = [ThreadNew EXCEPT !.pc = IF th[t].res = "Panic"
                                                         THEN "dead" ELSE "idle"]]
    /\ UNCHANGED << debug, opts, vol, device, strands, wbuf, mapLock, deleted, cache, calls, phase >>

(* ------------------------------------------------------ close and reopen *)
\* The packed DatastoreState message: the index's (key, pointer) entries and
\* the deleted pointers.
StateData(idx, del) ==
    [i \in 1..StateCells |->
        [kind |-> "state", index |-> [k \in DOMAIN idx |-> idx[k].value],
         deleted |-> del, part |-> i]]

\* DatastoreState::write: a StrandWriter with update_offset = false, the
\* message, then the writer's drop.
DatastoreStateWrite(dbg, dev, st, buf, idx, del) ==
    StrandWriterDrop(dbg,
        write_all(dbg, StrandWriterNew(dev, st, buf, FALSE), StateData(idx, del)))

RECURSIVE DropStrands(_, _, _, _)
\* Drop for Strand, strand by strand: write_metadata().expect(..). A second
\* panic while unwinding aborts the process. [dev, res]
DropStrands(dbg, dev, i, panicking) ==
    IF i > Len(strands)
    THEN [dev |-> dev, res |-> IF panicking THEN "close_panicked" ELSE "closed"]
    ELSE IF StrandWriteOk(dbg, strands[i], 0, PAGE_SIZE)
    THEN DropStrands(dbg,
                     DevStore(dev, strands[i].start, HeaderPage(StrandHeaderFrom(strands[i]))),
                     i + 1, panicking)
    ELSE IF panicking
    THEN [dev |-> dev, res |-> "aborted"]
    ELSE DropStrands(dbg, dev, i + 1, TRUE)

\* Drop for Store after write_state left the writer w: expect, then the fields.
StoreDropFields(dbg, w) ==
    IF w.err = "abort"
    THEN [dev |-> w.dev, res |-> "aborted"]
    ELSE DropStrands(dbg, w.dev, 1, w.err # "none")

\* Drop for Store, by thread c, once no call is in progress: write_state on
\* the strand Volume::write hands out, then the strands' drops.
Close(c) ==
    /\ phase = "open"
    /\ \A t \in Threads : th[t].pc \in {"idle", "dead"}
    /\ c \in Threads => th[c].pc = "idle"
    /\ \E s \in DOMAIN strands :
          LET w == DatastoreStateWrite(debug, device, strands[s], wbuf[c], index, deleted)
              r == StoreDropFields(debug, w)
          IN /\ device' = r.dev
             /\ phase' = r.res
             /\ wbuf' = [wbuf EXCEPT ![c] = w.buf]
    /\ UNCHANGED << debug, opts, vol, strands, index, mapLock, deleted, cache, th, hist, calls >>

\* VolumeHeader::read of the page's message: [res, strands, state_ptr].
VolumeHeaderRead(cell) ==
    IF cell.kind # "volume_header"
    THEN [res |-> "Corrupt", strands |-> 0, state_ptr |-> None]
    ELSE IF cell.strands <= MIN_STRANDS
    THEN [res |-> "Corrupt", strands |-> 0, state_ptr |-> None]
    ELSE [res |-> "Ok", strands |-> cell.strands,
          state_ptr |-> IF cell.state_ptr = 0 THEN None ELSE Some(cell.state_ptr)]

\* StrandHeader::read of the page's message: [res, offset].
StrandHeaderRead(cell) ==
    IF cell.kind # "strand_header"
    THEN [res |-> "Corrupt", offset |-> 0]
    ELSE [res |-> "Ok", offset |-> cell.offset]

\* DatastoreState::read at ptr: [res, index, deleted].
DatastoreStateRead(dbg, dev, sts, ptr) ==
    LET found == {s \in DOMAIN sts : sts[s].start <= ptr /\ ptr < end(sts[s])}
        st == sts[CHOOSE s \in found : TRUE]
        cell == dev[ptr]
    IN IF found = {}
       THEN [res |-> "Panic", index |-> EmptyMap, deleted |-> {}]
       ELSE IF ~StrandReadOk(dbg, st, align(ptr - st.start), PAGE_SIZE)
       THEN [res |-> "Panic", index |-> EmptyMap, deleted |-> {}]
       ELSE IF cell.kind # "state"
       THEN [res |-> "Corrupt", index |-> EmptyMap, deleted |-> {}]
       ELSE [res |-> "Ok",
             index |-> [k \in DOMAIN cell.index |-> CopyRwLockNew(cell.index[k])],
             deleted |-> cell.deleted]

\* Volume::open in Read mode on the device as it is: [res, strands, index, deleted].
VolumeOpenRead(dbg, dev) ==
    LET h == VolumeHeaderRead(dev[0])
        sh == StrandHeaderRead(dev[0])
        sts == [i \in 1..h.strands |->
                  [StrandNew(i - 1, StrandStart(h.strands, i - 1), StrandLen(h.strands, i - 1))
                      EXCEPT !.offset = sh.offset]]
        state == IF IsSome(h.state_ptr)
                 THEN DatastoreStateRead(dbg, dev, sts, Unwrap(h.state_ptr))
                 ELSE [res |-> "Ok", index |-> EmptyMap, deleted |-> {}]
        fail(res) == [res |-> res, strands |-> strands, index |-> index, deleted |-> deleted]
    IN IF ~check_read(0, PAGE_SIZE)
       THEN fail("Io")
       ELSE IF h.res # "Ok"
       THEN fail(h.res)
       ELSE IF \E i \in 0..(h.strands - 1) :
                  ~StrandNewAssert(StrandStart(h.strands, i), StrandLen(h.strands, i))
       THEN fail("Panic")
       ELSE IF sh.res # "Ok"
       THEN fail(sh.res)
       ELSE IF state.res # "Ok"
       THEN fail(state.res)
       ELSE [res |-> "reopened", strands |-> sts, index |-> state.index,
             deleted |-> state.deleted]

\* Store::open of the closed device with OpenMode::Read.
Reopen ==
    /\ phase = "closed"
    /\ LET r == VolumeOpenRead(debug, device)
       IN /\ phase' = r.res
          /\ strands' = r.strands
          /\ index' = r.index
          /\ deleted' = r.deleted
    /\ cache' = EmptyMap
    /\ vol' = VolumeNew(Len(strands'))
    /\ UNCHANGED << debug, opts, device, wbuf, mapLock, th, hist, calls >>

(* ------------------------------------------------- opening, step by step *)
OpenModes == {"Read", "Create", "Truncate"}

\* The devices a store is opened on: a new, all-zero one, or one whose page 0
\* already holds a volume header for some number of strands.
OpenDevices ==
    {MemoryNew} \cup
    {DevStore(MemoryNew, 0, HeaderPage(VolumeHeaderCell(n, 0))) : n \in 1..MaxStrands}

\* What Volume::open returns to Store::open / Store::memory on device dev:
\* "open" for Ok, the error kind for Err, "Panic" for a failed assertion.
VolumeOpenResult(mode, optStrands, defaultCount, dbg, dev) ==
    IF mode = "Read"
    THEN VolumeOpenRead(dbg, dev).res
    ELSE IF TooFewStrands(optStrands)
    THEN "BadArgument"
    ELSE IF VolumeOpenOk(mode, VolumeOpenNew(optStrands, defaultCount), dbg)
    THEN "open"
    ELSE "Panic"

\* Before the store is opened: the options are chosen, the device exists.
Unopened ==
    /\ debug \in BOOLEAN
    /\ opts \in [mode : OpenModes,
                 strands : {None} \cup {Some(x) : x \in 0..MaxStrands},
                 defaultCount : 0..MaxStrands]
    /\ device \in OpenDevices
    /\ strands = << >>
    /\ vol = VolumeNew(0)
    /\ wbuf = [t \in {Main} \cup Threads |-> BufferNew]
    /\ index = EmptyMap
    /\ mapLock = None
    /\ deleted = {}
    /\ cache = EmptyMap
    /\ th = [t \in Threads |-> ThreadNew]
    /\ hist = [k \in Keys |-> << >>]
    /\ calls = 0
    /\ phase = "unopened"

\* Store::open / Store::memory with the options. A device whose open failed is
\* dropped with the failed call and is left as is here.
Open ==
    /\ phase = "unopened"
    /\ phase' = VolumeOpenResult(opts.mode, opts.strands, opts.defaultCount, debug, device)
    /\ device' = IF phase' = "open"
                 THEN FormatDevice(VolumeOpenNew(opts.strands, opts.defaultCount))
                 ELSE device
    /\ strands' = IF phase' = "open"
                  THEN FormatStrands(VolumeOpenNew(opts.strands, opts.defaultCount))
                  ELSE VolumeOpenRead(debug, device).strands
    /\ index' = IF phase' = "reopened" THEN VolumeOpenRead(debug, device).index ELSE index
    /\ deleted' = IF phase' = "reopened" THEN VolumeOpenRead(debug, device).deleted ELSE deleted
    /\ vol' = VolumeNew(Len(strands'))
    /\ UNCHANGED << debug, opts, wbuf, mapLock, cache, th, hist, calls >>

NextOpen == Open

SpecOpen == Unopened /\ [][NextOpen]_vars

(* ------------------------------------------------------- key validation *)
\* The Store methods that take a key and start with verify_key(key)?.
KeyedOps == {"lookup", "insert", "update", "put", "remove", "delete", "merge"}

\* The key length the documentation of MAX_KEY_LEN states.
DocMaxKeyLen == 128 * 1024

\* Key lengths around the limits.
KeyLens ==
    {0, 1, 2, DocMaxKeyLen - 1, DocMaxKeyLen, DocMaxKeyLen + 1,
     MAX_KEY_LEN - 1, MAX_KEY_LEN, MAX_KEY_LEN + 1}

\* The first statement of a keyed Store method, called by thread t with a key
\* of len bytes: res is InvalidKey when the method returns there, Ok when it
\* goes on.
VerifyKey(t) ==
    /\ phase = "open"
    /\ \E op \in KeyedOps, len \in KeyLens :
          th' = [th EXCEPT ![t] = [ThreadNew EXCEPT !.op = op, !.klen = len,
                                                   !.res = verify_key(len)]]
    /\ UNCHANGED << debug, opts, vol, device, strands, wbuf, index, mapLock, deleted, cache,
                    hist, calls, phase >>

NextVerify == \E t \in Threads : VerifyKey(t)

SpecVerify == Init /\ [][NextVerify]_vars

(* ------------------------------------ Volume::read and Volume::write locks *)
\* The pointers handed to Volume::read: one before every strand, the first
\* cell of every strand, one past the device.
ReadPointers == {0, DeviceCapacity} \cup {strands[s].start : s \in DOMAIN strands}

VolUse(t, u) == [vol EXCEPT !.use[t] = u]

\* A thread enters Volume::write (at the first strand of the scan) or
\* Volume::read(ptr).
VolumeCall(t) ==
    /\ phase = "open"
    /\ vol.use[t].pc = "idle"
    /\ calls < MaxOps
    /\ calls' = calls + 1
    /\ \E kind \in {"write", "read"}, ptr \in ReadPointers :
          vol' = VolUse(t, [pc |-> IF kind = "write" THEN "scan" ELSE "search",
                            kind |-> kind, s |-> 1,
                            ptr |-> IF kind = "write" THEN 0 ELSE ptr, ran |-> 0])
    /\ UNCHANGED << debug, opts, device, strands, wbuf, index, mapLock, deleted, cache,
                    th, hist, phase >>

\* Volume::write, one turn of its scan: try_write_for(delay) on the strand the
\* scan is at; with the guard the closure starts, without it the scan moves on
\* to the next strand, wrapping around.
WriteTry(t) ==
    /\ vol.use[t].pc = "scan"
    /\ vol' = IF try_write_for(vol.lock[vol.use[t].s])
              THEN [vol EXCEPT !.lock[vol.use[t].s].writer = t, !.use[t].pc = "write"]
              ELSE [vol EXCEPT !.use[t].s = (vol.use[t].s % Len(strands)) + 1]
    /\ UNCHANGED << debug, opts, device, strands, wbuf, index, mapLock, deleted, cache,
                    th, hist, calls, phase >>

\* Volume::write: return func(&mut *guard). The closure ends, the guard drops.
WriteReturn(t) ==
    /\ vol.use[t].pc = "write"
    /\ vol' = [vol EXCEPT !.lock[vol.use[t].s].writer = 0,
                          !.use[t].pc = "idle",
                          !.use[t].ran = @ + 1]
    /\ UNCHANGED << debug, opts, device, strands, wbuf, index, mapLock, deleted, cache,
                    th, hist, calls, phase >>

\* The strands binary_search_by compares ptr with, between positions lo and
\* hi (1-based, hi exclusive).
RECURSIVE SearchProbes(_, _, _)
SearchProbes(ptr, lo, hi) ==
    IF lo >= hi
    THEN {}
    ELSE LET mid == (lo + hi) \div 2
         IN {mid} \cup (IF ptr < strands[mid].start
                        THEN SearchProbes(ptr, lo, mid)
                        ELSE IF ptr < end(strands[mid])
                        THEN {}
                        ELSE SearchProbes(ptr, mid + 1, hi))

\* Volume::read: the search for the strand that holds ptr, each comparison
\* under a read guard of the strand compared, dropped after the comparison;
\* Err(_) is the panic.
ReadSearch(t) ==
    /\ vol.use[t].pc = "search"
    /\ \A s \in SearchProbes(vol.use[t].ptr, 1, Len(strands) + 1) : read(vol.lock[s])
    /\ vol' = IF FindStrand(vol.use[t].ptr) = {}
              THEN [vol EXCEPT !.use[t].pc = "dead"]
              ELSE [vol EXCEPT !.use[t].s = CHOOSE s \in FindStrand(vol.use[t].ptr) : TRUE,
                               !.use[t].pc = "found"]
    /\ UNCHANGED << debug, opts, device, strands, wbuf, index, mapLock, deleted, cache,
                    th, hist, calls, phase >>

\* Volume::read: Ok(idx) => strands[idx].read(), which waits for the write
\* guard of that strand to drop; then the closure starts.
ReadLock(t) ==
    /\ vol.use[t].pc = "found"
    /\ read(vol.lock[vol.use[t].s])
    /\ vol' = [vol EXCEPT !.lock[vol.use[t].s].readers = @ \cup {t}, !.use[t].pc = "read"]
    /\ UNCHANGED << debug, opts, device, strands, wbuf, index, mapLock, deleted, cache,
                    th, hist, calls, phase >>

\* Volume::read: func(&*guard) returns, the guard drops.
ReadReturn(t) ==
    /\ vol.use[t].pc = "read"
    /\ vol' = [vol EXCEPT !.lock[vol.use[t].s].readers = @ \ {t},
                          !.use[t].pc = "idle",
                          !.use[t].ran = @ + 1]
    /\ UNCHANGED << debug, opts, device, strands, wbuf, index, mapLock, deleted, cache,
                    th, hist, calls, phase >>

NextStrands ==
    \E t \in Threads :
        \/ VolumeCall(t)
        \/ WriteTry(t)
        \/ WriteReturn(t)
        \/ ReadSearch(t)
        \/ ReadLock(t)
        \/ ReadReturn(t)

SpecStrands == Init /\ [][NextStrands]_vars

(* ------------------------------------- rewrites, removes and deletes only *)
\* The calls of the delete scenarios: update, put, remove and delete, of one
\* value, over more calls than Spec makes.
DeleteRequests ==
    [op : {"update", "put"}, key : Keys, val : {1}, func : {"none"}]
    \cup [op : {"remove", "delete"}, key : Keys, val : {EmptyVal}, func : {"none"}]

\* A thread calls update, put, remove or delete: verify_key passes, the call
\* goes on to index.lock(key).
CallDelete(t) ==
    /\ phase = "open"
    /\ th[t].pc = "idle"
    /\ calls < MaxDeleteOps
    /\ calls' = calls + 1
    /\ \E r \in {q \in DeleteRequests : verify_key(KeyLen(q.key)) = "Ok"} :
          th' = [th EXCEPT ![t] = [pc |-> "lock", op |-> r.op, key |-> r.key,
                                   klen |-> KeyLen(r.key), val |-> r.val,
                                   func |-> r.func, value |-> None,
                                   res |-> "none", out |-> EmptyVal]]
    /\ UNCHANGED << debug, opts, vol, device, strands, wbuf, index, mapLock, deleted, cache,
                    hist, phase >>

\* The program starts another thread in the place of one that panicked; its
\* thread-local WRITE_BUFFER is new.
Spawn(t) ==
    /\ phase = "open"
    /\ th[t].pc = "dead"
    /\ th' = [th EXCEPT ![t] = ThreadNew]
    /\ wbuf' = [wbuf EXCEPT ![t] = BufferNew]
    /\ UNCHANGED << debug, opts, vol, device, strands, index, mapLock, deleted, cache, hist,
                    calls, phase >>

NextDelete ==
    \E t \in Threads :
        \/ CallDelete(t)
        \/ Spawn(t)
        \/ IndexEntry(t)
        \/ Update(t)
        \/ Put(t)
        \/ Remove(t)
        \/ Delete(t)
        \/ Drop(t)

SpecDelete == Init /\ [][NextDelete]_vars

Next ==
    \/ \E t \in Threads :
        \/ Call(t)
        \/ IndexEntry(t)
        \/ Lookup(t)
        \/ Insert(t)
        \/ Update(t)
        \/ Put(t)
        \/ Remove(t)
        \/ Delete(t)
        \/ Merge(t)
        \/ Drop(t)
    \/ \E c \in Threads \cup {Main} : Close(c)
    \/ Reopen

Spec == Init /\ [][Next]_vars

(* ----------------------------------------------------------- observations *)
\* The i-th completed call on key k (hist holds them newest first).
Nth(k, i) == hist[k][Len(hist[k]) - i + 1]

\* The calls completed on key k so far are exactly ops, in this order.
Ran(k, ops) ==
    /\ Len(hist[k]) = Len(ops)
    /\ \A i \in 1..Len(ops) : Nth(k, i).op = ops[i]

\* No call on key k is in progress.
Quiet(k) == \A t \in Threads : th[t].pc \in {"idle", "dead"} \/ th[t].key # k

\* What Store::lookup(k) returns when called in this state with k's lock free:
\* the cached value, else the record read at the slot's pointer (the slot
\* Index::entry creates for a key without one holds pointer 0). [res, out]
LookupNow(k, g) ==
    IF IsSome(CacheGet(cache, k))
    THEN [res |-> "Ok", out |-> Unwrap(CacheGet(cache, k))]
    ELSE [res |-> VolumeReadItem(IF k \in DOMAIN index THEN index[k].value ELSE 0, g).res,
          out |-> VolumeReadItem(IF k \in DOMAIN index THEN index[k].value ELSE 0, g).val]

\* lookup(k) returns Ok with value v.
Returns(k, v) == \A g \in GarbageOutcomes : LookupNow(k, g) = [res |-> "Ok", out |-> v]

\* The completed call e is a lookup that returned value v.
Gave(e, v) == e.res = "Ok" /\ e.out = v

(* ----------------------------------------------------------------- claims *)
\* C1: round trip on one key. When insert(k, v) is the first call on a key
\* (k absent), the insert returns Ok and every lookup(k) that follows, the
\* first (from disk) and the repeated one (from the read cache), returns v.
C1_RoundTrip ==
    \A k \in Keys :
        /\ Ran(k, << "insert", "lookup" >>) =>
              Nth(k, 1).res = "Ok" /\ Gave(Nth(k, 2), Nth(k, 1).val)
        /\ Ran(k, << "insert", "lookup", "lookup" >>) =>
              Gave(Nth(k, 2), Nth(k, 1).val) /\ Gave(Nth(k, 3), Nth(k, 1).val)

\* C2: remove then lookup. After insert(k, v) and remove(k) on an absent key,
\* both return Ok, the index holds no slot for k (exists(k) is false) and
\* lookup(k) returns ItemNotFound.
C2_RemoveThenLookup ==
    \A k \in Keys :
        /\ Ran(k, << "insert", "remove" >>) /\ Quiet(k) =>
              /\ Nth(k, 1).res = "Ok"
              /\ Nth(k, 2).res = "Ok"
              /\ ~IndexExists(k)
        /\ Ran(k, << "insert", "remove", "lookup" >>) =>
              Nth(k, 3).res = "ItemNotFound"

\* C3: calls on one key are serialized. At most one thread holds a key's
\* entry, the holder works on the pointer the slot held when it took the lock,
\* and after a call that makes k present and two update(k, v_i) calls have
\* ended, both updates returned Ok and lookup(k) returns one of the v_i.
C3_PerKeySerialization ==
    /\ \A t, u \in Threads :
          t # u /\ th[t].pc \in {"body", "drop"} /\ th[u].pc \in {"body", "drop"}
              => th[t].key # th[u].key
    /\ \A t \in Threads :
          th[t].pc = "body" => index[th[t].key].busy = -1
    /\ \A k \in Keys :
          /\ Len(hist[k]) = 3
          /\ Nth(k, 1).op \in {"insert", "put"}
          /\ Nth(k, 2).op = "update"
          /\ Nth(k, 3).op = "update"
          /\ Quiet(k)
          => /\ Nth(k, 2).res = "Ok"
             /\ Nth(k, 3).res = "Ok"
             /\ \E i \in 2..3 : Returns(k, Nth(k, i).val)

\* lookup(k) gives what a key whose value is the option o gives.
ReturnsOption(k, o) ==
    IF IsSome(o)
    THEN Returns(k, Unwrap(o))
    ELSE \A g \in GarbageOutcomes : LookupNow(k, g).res = "ItemNotFound"

\* C4: merge is atomic per key. After two merge calls on an absent key have
\* ended, both returned Ok and the key's value is the result of applying the
\* two closures one after the other, in one of the two orders.
C4_MergeAtomic ==
    \A k \in Keys :
        Ran(k, << "merge", "merge" >>) /\ Quiet(k) =>
            /\ Nth(k, 1).res = "Ok"
            /\ Nth(k, 2).res = "Ok"
            /\ \/ ReturnsOption(k, MergeApply(Nth(k, 2).func, MergeApply(Nth(k, 1).func, None)))
               \/ ReturnsOption(k, MergeApply(Nth(k, 1).func, MergeApply(Nth(k, 2).func, None)))

\* The phases that follow a reopen of the closed device in Read mode.
AfterReopen == phase \notin {"open", "aborted", "closed", "close_panicked"}

\* C5: persistence. After inserts only (each key at most once), the drop of
\* the Store and a reopen in Read mode, the Store opens, every inserted key
\* exists and lookup returns its value, and no other key exists.
C5_Persistence ==
    AfterReopen /\ (\A k \in Keys : hist[k] = << >> \/ Ran(k, << "insert" >>)) =>
        /\ phase = "reopened"
        /\ \A k \in Keys :
              IF hist[k] = << >>
              THEN ~IndexExists(k)
              ELSE Nth(k, 1).res = "Ok" /\ IndexExists(k) /\ Returns(k, Nth(k, 1).val)

\* C6: insert uniqueness. The insert of an absent key does not return
\* ItemExists; a second insert(k, v') returns ItemExists and lookup(k) still
\* returns the first value.
C6_InsertUniqueness ==
    \A k \in Keys :
        /\ Len(hist[k]) >= 1 /\ Nth(k, 1).op = "insert" => Nth(k, 1).res # "ItemExists"
        /\ Len(hist[k]) >= 2 /\ Nth(k, 1).op = "insert" /\ Nth(k, 2).op = "insert" =>
              Nth(k, 2).res = "ItemExists"
        /\ Ran(k, << "insert", "insert", "lookup" >>) => Gave(Nth(k, 3), Nth(k, 1).val)

\* C7: update requires presence. update(k, v) as the first call on a key
\* returns ItemNotFound and creates no slot: exists(k) is false afterwards and
\* lookup(k) returns ItemNotFound.
C7_UpdateRequiresPresence ==
    \A k \in Keys :
        /\ Ran(k, << "update" >>) /\ Quiet(k) =>
              Nth(k, 1).res = "ItemNotFound" /\ ~IndexExists(k)
        /\ Ran(k, << "update", "lookup" >>) => Nth(k, 2).res = "ItemNotFound"

\* C8: last write wins. put(k, v1); put(k, v2); lookup(k) gives v2, and
\* insert(k, v0); update(k, v1); lookup(k) gives v1, the writes returning Ok.
C8_LastWriteWins ==
    \A k \in Keys :
        /\ Ran(k, << "put", "put", "lookup" >>) =>
              /\ Nth(k, 1).res = "Ok"
              /\ Nth(k, 2).res = "Ok"
              /\ Gave(Nth(k, 3), Nth(k, 2).val)
        /\ Ran(k, << "insert", "update", "lookup" >>) =>
              /\ Nth(k, 1).res = "Ok"
              /\ Nth(k, 2).res = "Ok"
              /\ Gave(Nth(k, 3), Nth(k, 2).val)

\* C9: delete returns the old value. insert(k, v); delete(k) returns v, after
\* which exists(k) is false and lookup(k) returns ItemNotFound; delete as the
\* first call on a key returns ItemNotFound.
C9_DeleteReturnsOld ==
    \A k \in Keys :
        /\ Ran(k, << "insert", "delete" >>) /\ Quiet(k) =>
              Gave(Nth(k, 2), Nth(k, 1).val) /\ ~IndexExists(k)
        /\ Ran(k, << "insert", "delete", "lookup" >>) => Nth(k, 3).res = "ItemNotFound"
        /\ Ran(k, << "delete" >>) => Nth(k, 1).res = "ItemNotFound"

\* Every key has had exactly one call, an insert or a put, and none is in progress.
EachKeyWrittenOnce ==
    \A k \in Keys : Len(hist[k]) = 1 /\ Nth(k, 1).op \in {"insert", "put"} /\ Quiet(k)

\* C10: writers on disjoint keys. When every key has been written once (by
\* whichever thread, on whichever strand, with whatever that thread's buffer
\* held), every write returned Ok and lookup of each key returns its value.
C10_DisjointWriters ==
    EachKeyWrittenOnce =>
        \A k \in Keys : Nth(k, 1).res = "Ok" /\ Returns(k, Nth(k, 1).val)

\* Thread t holds the per-key lock of a key that has no committed item: its
\* call is a lookup, an update, a delete or a not yet published insert, and no
\* call on the key has completed before it.
HoldsUncommitted(t) ==
    /\ th[t].pc \in {"body", "drop"}
    /\ th[t].op \in {"lookup", "update", "delete", "insert"}
    /\ hist[th[t].key] = << >>

\* C11: a slot that is only locked is not a live item. While a thread holds the
\* per-key lock of a key with no committed item, Store::exists of that key
\* (answerable whenever the map lock is free) is false, and a concurrent lookup
\* of the key is still waiting for the lock.
C11_LockedSlotNotLive ==
    \A t \in Threads :
        HoldsUncommitted(t) =>
            /\ mapLock = None => ~IndexExists(th[t].key)
            /\ \A u \in Threads \ {t} :
                  th[u].op = "lookup" /\ th[u].key = th[t].key =>
                      th[u].pc \in {"lock", "spin"}

\* C12: merge follows its documented table. As the first call on a key (the
\* key absent) the closure sees None, and after a put that returned Ok it sees
\* the stored value: the merge returns Ok and lookup of the key then gives
\* what the closure returned (ItemNotFound, the key absent, when it returned
\* None). No merge returns ItemNotFound or ItemExists.
C12_MergeTable ==
    \A k \in Keys :
        /\ Ran(k, << "merge" >>) /\ Quiet(k) =>
              /\ Nth(k, 1).res = "Ok"
              /\ ReturnsOption(k, MergeApply(Nth(k, 1).func, None))
              /\ ~IsSome(MergeApply(Nth(k, 1).func, None)) => ~IndexExists(k)
        /\ Ran(k, << "put", "merge" >>) /\ Quiet(k) /\ Nth(k, 1).res = "Ok" =>
              /\ Nth(k, 2).res = "Ok"
              /\ ReturnsOption(k, MergeApply(Nth(k, 2).func, Some(Nth(k, 1).val)))
              /\ ~IsSome(MergeApply(Nth(k, 2).func, Some(Nth(k, 1).val))) => ~IndexExists(k)
        /\ \A i \in 1..Len(hist[k]) :
              hist[k][i].op = "merge" => hist[k][i].res \notin {"ItemNotFound", "ItemExists"}

\* The store is as construction left it: no device cell written since the
\* format, an empty index and DeletedSet, every strand's cursor and statistics
\* as formatted.
AsConstructed ==
    /\ device = FormatDevice(Len(strands))
    /\ index = EmptyMap
    /\ deleted = {}
    /\ \A s \in DOMAIN strands :
          strands[s].offset = PAGE_SIZE /\ strands[s].stats = StatsDefault

\* Exactly one call has been made on the open store, it was on key k and has
\* returned.
OnlyCall(k) ==
    /\ phase = "open"
    /\ calls = 1
    /\ Len(hist[k]) = 1
    /\ \A t \in Threads : th[t].pc = "idle"

\* C13: precondition failures leave the store untouched. When the only call
\* made on a fresh store returned ItemExists (insert) or ItemNotFound (update,
\* delete), the device, the index, the DeletedSet and every strand's cursor and
\* statistics are what they were before the call.
C13_FailureLeavesStoreUntouched ==
    \A k \in Keys :
        /\ OnlyCall(k)
        /\ \/ Nth(k, 1).op = "insert" /\ Nth(k, 1).res = "ItemExists"
           \/ Nth(k, 1).op \in {"update", "delete"} /\ Nth(k, 1).res = "ItemNotFound"
        => AsConstructed

\* C14: a record that does not fit the chosen strand is reported as
\* OutOfSpace. Every put of a value whose record is longer than the room that
\* remains in the strand (put always reaches the write router) returned
\* OutOfSpace, not Io, Corrupt or another kind.
C14_FullStrandIsOutOfSpace ==
    \A k \in Keys :
        \A i \in 1..Len(hist[k]) :
            hist[k][i].op = "put" /\ hist[k][i].val = BigVal =>
                hist[k][i].res = "OutOfSpace"

\* C15: running out of space is not destructive. After an insert whose record
\* does not fit the strand has failed, as the first call on its key, that key is
\* absent from the index, and every other key stored before by a put that
\* returned Ok still exists and lookup returns the value put.
C15_FullStrandNotDestructive ==
    \A k \in Keys :
        /\ Ran(k, << "insert" >>) /\ Quiet(k)
        /\ Nth(k, 1).val = BigVal /\ Nth(k, 1).res # "Ok"
        => /\ ~IndexExists(k)
           /\ \A j \in Keys \ {k} :
                 Ran(j, << "put" >>) /\ Quiet(j) /\ Nth(j, 1).res = "Ok" =>
                     IndexExists(j) /\ Returns(j, Nth(j, 1).val)

\* C16: close protocol. After a successful close the volume header at device
\* page 0 records a nonzero state_ptr, and that pointer addresses the
\* DatastoreState snapshot of the index and DeletedSet written by the close.
C16_CloseRecordsStatePtr ==
    phase = "closed" =>
        /\ device[0].kind = "volume_header"
        /\ device[0].state_ptr # 0
        /\ device[0].state_ptr \in DOMAIN device
        /\ device[device[0].state_ptr] = StateData(index, deleted)[1]

\* C17: Create and Truncate format the device. Once the store is open, device
\* page 0 holds a volume header with the chosen strand count and state_ptr 0,
\* the device holds a fresh header (cursor PAGE_SIZE) of every strand, and an
\* open of this device in Read mode passes header validation and recovers the
\* same number of strands.
C17_CreateFormatsHeaders ==
    phase = "open" /\ opts.mode \in {"Create", "Truncate"} =>
        /\ device[0] = VolumeHeaderCell(Len(strands), 0)
        /\ \A s \in DOMAIN strands :
              \E off \in DOMAIN device :
                  device[off] = StrandHeaderCell(strands[s].id, strands[s].capacity,
                                                 PAGE_SIZE, StatsDefault)
        /\ VolumeHeaderRead(device[0]).res = "Ok"
        /\ VolumeHeaderRead(device[0]).strands = Len(strands)
        /\ VolumeOpenRead(debug, device).res = "reopened"

\* C18: Truncate trims the whole device and then formats as Create does. For
\* options with which a Create open succeeds, the whole-device trim satisfies
\* the trim precondition and the Truncate open returns an open store on a
\* device formatted as in Create mode.
C18_TruncateOpens ==
    /\ phase # "unopened"
    /\ opts.mode = "Truncate"
    /\ VolumeOpenResult("Create", opts.strands, opts.defaultCount, debug, device) = "open"
    => /\ check_trim(0, DeviceCapacity)
       /\ phase = "open"
       /\ device = FormatDevice(VolumeOpenNew(opts.strands, opts.defaultCount))

\* C20: the minimum strand count is inclusive. Creating with options.strands =
\* MIN_STRANDS is not refused as BadArgument, BadArgument is returned only for
\* a count below MIN_STRANDS, and a Read open of a device whose volume header
\* records MIN_STRANDS strands is not refused as Corrupt.
C20_MinStrandsInclusive ==
    phase # "unopened" =>
        /\ phase = "BadArgument" =>
              IsSome(opts.strands) /\ Unwrap(opts.strands) < MIN_STRANDS
        /\ opts.mode \in {"Create", "Truncate"} /\ opts.strands = Some(MIN_STRANDS) =>
              phase # "BadArgument"
        /\ opts.mode = "Read" /\ device[0] = VolumeHeaderCell(MIN_STRANDS, 0) =>
              phase # "Corrupt"

\* C19: key length limits. Every keyed method returns InvalidKey for an empty
\* key and for a key longer than 128 KiB (131072 bytes), and goes on for
\* every key of 1 to 131072 bytes.
C19_KeyLengthLimits ==
    \A t \in Threads :
        th[t].op \in KeyedOps /\ th[t].res \in {"Ok", "InvalidKey"} =>
            (th[t].res = "InvalidKey" <=> (th[t].klen = 0 \/ th[t].klen > DocMaxKeyLen))

RECURSIVE SumCapacity(_)
\* The sum of the capacities of the first n strands.
SumCapacity(n) == IF n = 0 THEN 0 ELSE SumCapacity(n - 1) + strands[n].capacity

\* C21: strand layout. Once the store is open, strand i starts at
\* i * size + PAGE_SIZE with size = align(capacity / N), every strand is
\* page-aligned and lies inside [PAGE_SIZE, device capacity), no two strands
\* overlap, and the capacities sum to at most device capacity - PAGE_SIZE.
C21_StrandLayout ==
    phase = "open" =>
        /\ \A s \in DOMAIN strands :
              /\ strands[s].start = (s - 1) * StrandSize(Len(strands)) + PAGE_SIZE
              /\ strands[s].start % PAGE_SIZE = 0
              /\ strands[s].capacity % PAGE_SIZE = 0
              /\ PAGE_SIZE <= strands[s].start
              /\ end(strands[s]) <= DeviceCapacity
        /\ \A s, u \in DOMAIN strands :
              s < u => end(strands[s]) <= strands[u].start
        /\ SumCapacity(Len(strands)) <= DeviceCapacity - PAGE_SIZE

RECURSIVE DeletedItems(_)
\* Volume::stats().deleted_items: the sum over the first n strands.
DeletedItems(n) ==
    IF n = 0 THEN 0 ELSE DeletedItems(n - 1) + strands[n].stats.deleted_items

\* No Store call is in progress and none has panicked.
Quiescent == phase = "open" /\ \A t \in Threads : th[t].pc = "idle"

\* C22: the deleted_items statistic counts the DeletedSet. Whenever every call
\* made so far has returned, successfully or not, stats().deleted_items equals
\* the number of pointers in the DeletedSet.
C22_DeletedItemsCountsDeletedSet ==
    Quiescent => DeletedItems(Len(strands)) = Cardinality(deleted)

\* Pointer ptr addresses, in strand s and below its append cursor, the first
\* cell of a completely written record of key k.
RecordOf(k, ptr, s) ==
    /\ strands[s].start <= ptr
    /\ ptr < strands[s].start + strands[s].offset
    /\ ItemRead(debug, device, strands[s], ptr).res = "ok"
    /\ ItemRead(debug, device, strands[s], ptr).key = k

\* C23: index validity. Whenever no call is in progress, every key in the index
\* maps to a pointer that lies inside some strand below that strand's append
\* cursor and is the start of a completely written record of that key.
C23_IndexValidity ==
    Quiescent =>
        \A k \in DOMAIN index :
            \E s \in DOMAIN strands : RecordOf(k, index[k].value, s)

\* No Store call is in progress (a thread whose call panicked has ended).
NoCallInFlight == phase = "open" /\ \A t \in Threads : th[t].pc \in {"idle", "dead"}

\* C24: the DeletedSet is disjoint from the index. Whenever no call is in
\* progress, whatever calls were made and however they ended, no pointer is
\* both in the DeletedSet and the pointer of an index entry.
C24_DeletedDisjointFromIndex ==
    NoCallInFlight => \A k \in DOMAIN index : index[k].value \notin deleted

\* C25: per-key lock liveness. A thread waiting in lock(k) for the Entry that
\* another thread holds does not hold the index map lock while it waits, so
\* the holder's release, which takes the map lock, can proceed and hand the
\* Entry over.
C25_WaiterDoesNotBlockHolder ==
    \A t, u \in Threads :
        /\ th[t].pc = "spin"
        /\ th[u].pc \in {"body", "drop"}
        /\ th[u].key = th[t].key
        => mapLock = None

(* ------------------------------------------------------------ C26 *)
\* The threads whose Volume::write closure is running on strand s, and those
\* whose Volume::read closure is.
WritersOn(s) == {t \in Threads : vol.use[t].pc = "write" /\ vol.use[t].s = s}

ReadersOn(s) == {t \in Threads : vol.use[t].pc = "read" /\ vol.use[t].s = s}

\* C26: strand exclusivity. On every strand at most one write closure runs,
\* and none while a read closure runs on it; the thread running a write closure
\* holds the write guard of that one strand and of no other; a call of
\* Volume::write that has returned ran its closure exactly once.
C26_StrandExclusivity ==
    /\ \A s \in DOMAIN strands :
          /\ Cardinality(WritersOn(s)) <= 1
          /\ WritersOn(s) # {} => ReadersOn(s) = {}
    /\ \A t \in Threads :
          /\ vol.use[t].pc = "write" =>
                {s \in DOMAIN strands : vol.lock[s].writer = t} = {vol.use[t].s}
          /\ vol.use[t].pc = "idle" /\ vol.use[t].kind = "write" => vol.use[t].ran = 1

\* C26 witness: a write closure runs on a strand while another thread is in
\* Volume::write at the same strand and is refused the guard, and an earlier
\* call of Volume::write has returned.
C26_Contended ==
    \E t, u \in Threads :
        /\ t # u
        /\ vol.use[t].pc = "write"
        /\ vol.use[u].pc \in {"scan", "found"}
        /\ vol.use[u].s = vol.use[t].s
        /\ calls >= 3

(* ------------------------------------------------------------ C27 *)
\* The device cells that hold what a strand wrote: a strand header or a part
\* of a record.
StrandCells == {i \in DOMAIN device : device[i].kind \in {"strand_header", "item"}}

\* C27: write-write non-overlap. Whatever was written to the device on behalf
\* of a strand lies inside that strand's range [start, start + capacity), so
\* none of it is in the volume header page.
C27_StrandWritesInsideStrand ==
    phase = "open" =>
        \A i \in StrandCells :
            /\ i >= PAGE_SIZE
            /\ \E s \in DOMAIN strands : strands[s].start <= i /\ i < end(strands[s])

(* ------------------------------------------------------------ C28 *)
\* Device cell i belongs to what strand s appended in the step: the cells from
\* its append cursor before the step up to its append cursor after it.
Appended(s, i) ==
    /\ strands[s].start + strands[s].offset <= i
    /\ i < strands'[s].start + strands'[s].offset

\* Device cell i is in the header page of strand s, which write_metadata
\* rewrites.
InHeaderPage(s, i) == strands[s].start <= i /\ i < strands[s].start + PAGE_SIZE

\* C28: an append changes only the appended range. In every step the open
\* store takes, a device cell whose content changes is one the step appended
\* (or is in the header page of a strand); every other cell of the erase blocks
\* written keeps what the device held, whatever sessions the thread-local
\* buffer served before.
C28_AppendChangesOnlyAppended ==
    [][phase = "open" /\ phase' = "open" =>
          \A i \in DOMAIN device :
              device'[i] # device[i] =>
                  \E s \in DOMAIN strands : Appended(s, i) \/ InHeaderPage(s, i)]_vars

(* ------------------------------------------------------------ C29 *)
\* read_item at ptr decodes the record (k, v) out of strand s.
Decodes(s, ptr, k, v) ==
    /\ contains_ptr(strands[s], ptr)
    /\ ItemRead(debug, device, strands[s], ptr) = [res |-> "ok", key |-> k, val |-> v]

\* C29: the pointer write_item returns is the address of the first cell of the
\* record it appended. A thread whose update or put has got Ok from its write
\* and has not yet released the key holds in its entry a pointer at which
\* read_item decodes the key and the value the call wrote.
C29_WriteItemPointer ==
    \A t \in Threads :
        (/\ phase = "open"
         /\ th[t].pc = "drop"
         /\ th[t].op \in {"update", "put"}
         /\ th[t].res = "Ok"
         /\ IsSome(th[t].value))
        => \E s \in DOMAIN strands : Decodes(s, Unwrap(th[t].value), th[t].key, th[t].val)

(* ------------------------------------------------------------ C30 *)
\* write_item has returned Ok to thread t's update or put, and the thread has
\* not yet released the key: the call returned Ok, or it went on to remove_item
\* and panicked there, after the old pointer was added to the DeletedSet.
WriteItemReturned(t) ==
    /\ phase = "open"
    /\ th[t].pc = "drop"
    /\ th[t].op \in {"update", "put"}
    /\ IsSome(th[t].value)
    /\ \/ th[t].res = "Ok"
       \/ th[t].res = "Panic" /\ Unwrap(th[t].value) \in deleted

\* The header page of strand s on the device records the strand's append
\* cursor.
HeaderRecordsOffset(s) ==
    /\ device[strands[s].start].kind = "strand_header"
    /\ device[strands[s].start].offset = strands[s].offset

\* C30: after write_item returns, the on-disk header page of the strand holds
\* the advanced append cursor; the flush of the data block does not put an
\* older copy of the page back.
C30_HeaderRecordsCursor ==
    \A t \in Threads :
        WriteItemReturned(t) => \A s \in DOMAIN strands : HeaderRecordsOffset(s)

(* ------------------------------------------------------------ C31 *)
\* Strand::new with read_strand = true: device.read(0, page), then
\* StrandHeader::read of the page. [res, offset]
StrandNewRead(dev) == StrandHeaderRead(dev[0])

\* C31: strand header round trip. Once the store is closed and every strand
\* has written its header in its drop, constructing a strand over the device
\* with read_existing = true reads a valid header and restores the offset the
\* strand had when it was dropped.
C31_StrandHeaderRoundTrip ==
    phase = "closed" =>
        \A s \in DOMAIN strands :
            /\ StrandNewRead(device).res = "Ok"
            /\ StrandNewRead(device).offset = strands[s].offset

(* ------------------------------------------------------------ C32 *)
\* The append cursor of every strand in sts is within its bounds.
OffsetsInBounds(sts) ==
    \A s \in DOMAIN sts : PAGE_SIZE <= sts[s].offset /\ sts[s].offset <= sts[s].capacity

\* Thread t's step is the body of an update or put of a record longer than
\* what is left of any strand.
WritesTooLong(t) ==
    /\ th[t].pc = "body"
    /\ th'[t].pc # "body"
    /\ th[t].op \in {"update", "put"}
    /\ ItemLen(th[t].val) > DeviceCapacity - PAGE_SIZE

C33_LockOfAbsentKey ==
    \A t \in Threads :
        (phase = "open" /\ th[t].pc = "body") =>
            /\ th[t].value # Some(0)
            /\ hist[th[t].key] = << >> => th[t].value = None /\ ~IndexExists(th[t].key)

(* ------------------------------------------------------------ C34 *)
\* C34: adding a pointer that is not yet in the DeletedSet succeeds. A step of
\* a Store method body that puts a new pointer into the DeletedSet does not
\* end in a panic: the assertion of the add fails for tracked pointers only.
C34_FreshAddSucceeds ==
    [][\A t \in Threads :
          (th[t].pc = "body" /\ th'[t].pc = "drop" /\ deleted' # deleted)
          => th'[t].res # "Panic"]_vars

(* ------------------------------------------------------------ C35 *)
\* The FilePointers looked at: every device address, and those up to a page
\* past the end of the last strand.
FilePointers == 0..(DeviceCapacity + 2 * PAGE_SIZE)

\* C35: contains_ptr(p) is true exactly when start <= p < start + capacity,
\* the end address excluded, so the strands that contain a pointer are the one
\* strand Volume::read routes it to.
C35_ContainsPtrHalfOpen ==
    phase = "open" =>
        \A p \in FilePointers :
            /\ \A s \in DOMAIN strands :
                  contains_ptr(strands[s], p)
                      <=> (strands[s].start <= p /\ p < strands[s].start + strands[s].capacity)
            /\ {s \in DOMAIN strands : contains_ptr(strands[s], p)} = FindStrand(p)

(* ------------------------------------------------------------ C36 *)
\* The page-aligned accesses (off, len) the writer and the reader make on a
\* strand: a page or an erase block at a page boundary.
Accesses(st) ==
    {a \in [off : 0..(st.capacity + TRIM_SIZE), len : {PAGE_SIZE, TRIM_SIZE}] :
        a.off % PAGE_SIZE = 0}

\* C36: the bounds assertions of Strand::read, write and trim. In a build
\* that keeps them, an access inside the strand (off + len <= capacity) passes,
\* the header write at offset 0 included, and an access reaching beyond the
\* capacity fails.
C36_StrandBoundsChecks ==
    (phase = "open" /\ debug) =>
        \A s \in DOMAIN strands :
            \A a \in Accesses(strands[s]) :
                StrandDebugAssert(strands[s], a.off, a.len)
                    <=> (a.off + a.len <= strands[s].capacity)

(* ------------------------------------------------------------ C37 *)
\* C37: no lock and no placeholder is leaked. Whenever no Store operation is
\* in flight, no slot of the index is locked and none holds the placeholder
\* pointer 0.
C37_NoLeakedSlot ==
    Quiescent => \A k \in DOMAIN index : index[k].busy = 0 /\ index[k].value # 0

(* ------------------------------------------------------------ C38 *)
\* On key k a put that returned Ok was followed by an update or put whose
\* record write failed for lack of space, and nothing else.
FailedRewrite(k) ==
    /\ phase = "open"
    /\ Len(hist[k]) = 2
    /\ Quiet(k)
    /\ Nth(k, 1).op = "put" /\ Nth(k, 1).res = "Ok"
    /\ Nth(k, 2).op \in {"update", "put"} /\ Nth(k, 2).val = BigVal
    /\ Nth(k, 2).res \notin {"Ok", "Panic"}

\* C38: a failed write step does not lose the old value. After the record
\* write of an update or put on a present key failed, the key is still in the
\* index, its pointer is not in the DeletedSet, and lookup returns the value the
\* key had before.
C38_FailedWriteKeepsOldValue ==
    \A k \in Keys :
        FailedRewrite(k) =>
            /\ IndexExists(k)
            /\ index[k].value \notin deleted
            /\ Returns(k, Nth(k, 1).val)

(* ------------------------------------------------------------ C39 *)
\* Thread t's step is the body of a delete that returns an error other than
\* ItemNotFound: the read of the value failed.
DeleteFails(t) ==
    /\ th[t].pc = "body"
    /\ th[t].op = "delete"
    /\ th'[t].pc = "drop"
    /\ th'[t].res \notin {"Ok", "ItemNotFound", "Panic"}

\* C39: delete is all-or-nothing. A delete that returns an error other than
\* ItemNotFound leaves the key's guard with the old pointer, so that the key
\* stays in the index with it, and adds nothing to the DeletedSet.
C39_DeleteAllOrNothing ==
    [][\A t \in Threads :
          DeleteFails(t) => th'[t].value = th[t].value /\ deleted' = deleted]_vars

(* ------------------------------------------------------------ C40 *)
\* The per-key lock of k is free: no slot, or a slot that is not busy.
LockFree(k) == k \in DOMAIN index => index[k].busy = 0

\* C40: read-cache coherence. If the read cache holds a value for a key k
\* the callers use while k's lock is free, then k is in the index and the
\* record at its pointer is a record of k with the cached value.
C40_CacheCoherence ==
    phase = "open" =>
        \A k \in (DOMAIN cache) \cap Keys :
            LockFree(k) =>
                /\ IndexExists(k)
                /\ \E s \in DOMAIN strands : Decodes(s, index[k].value, k, cache[k])

====
